---- MODULE Spec2Model ----
(***************************************************************************)
(* Sentinel-terminated arrays of nix-rust (src/null_terminated.rs):        *)
(* NullTerminatedSlice (the borrowed view), NullTerminatedArray (the owned *)
(* buffer), NullTerminatedIterator, and NullTerminatedVec (the projection  *)
(* of owned values into a sentinel-terminated array of pointers).          *)
(*                                                                         *)
(* A slot is an Option<T>: None is the empty tuple, Some(v) the 1-tuple.   *)
(* A buffer is a sequence of slots.                                        *)
(***************************************************************************)
EXTENDS Integers, Sequences, FiniteSets, TLC

\* Longest source sequence / slot sequence handed to a constructor.
MaxLen == 3

\* The element values T of the array model (for T = &U they are addresses).
Value == {1, 2}

----------------------------------------------------------------------------
(* Option<T> *)

None == <<>>

Some(v) == <<v>>

IsNone(o) == o = None

Unwrap(o) == o[1]

Slot == {None} \cup {Some(v) : v \in Value}

SeqsUpTo(S, n) == UNION {[1..k -> S] : k \in 0..n}

\* The inputs a caller can pass: sequences of values, sequences of slots.
ValueSeqs == SeqsUpTo(Value, MaxLen)

SlotSeqs == SeqsUpTo(Slot, MaxLen)

----------------------------------------------------------------------------
(* NullTerminatedSlice *)

\* slice.last(): Option<&Option<T>>
SliceLast(slice) == IF Len(slice) = 0 THEN None ELSE Some(slice[Len(slice)])

\* Mutant of LastIsNone: unwrap_or(true), an empty slice counts as terminated.
LastIsNone_UnwrapTrue(slice) ==
    LET l == SliceLast(slice)
    IN  IF IsNone(l) THEN TRUE ELSE IsNone(Unwrap(l))

\* slice.last().map(Option::is_none).unwrap_or(false)
LastIsNone(slice) ==
    LET l == SliceLast(slice)
    IN  IF IsNone(l) THEN FALSE ELSE IsNone(Unwrap(l))

\* from_slice_unchecked / from_slice_mut_unchecked: the view's inner is the
\* slice itself, reinterpreted.
FromSliceUnchecked(slice) == [inner |-> slice]

\* Mutant of FromSlice: the check of the last slot is left out.
FromSlice_NoCheck(slice) == Some(FromSliceUnchecked(slice))

\* Mutant of FromSlice: the empty slice is accepted as a view.
FromSlice_AcceptEmpty(slice) ==
    IF Len(slice) = 0 \/ LastIsNone(slice)
    THEN Some(FromSliceUnchecked(slice)) ELSE None

\* from_slice and from_slice_mut: Some(view) or None.
FromSlice(slice) ==
    IF LastIsNone(slice) THEN Some(FromSliceUnchecked(slice)) ELSE None

\* self.inner.len() - 1 on a buffer of no slots: the usize subtraction
\* overflows (a panic in a checked build; in an unchecked one it wraps to
\* usize::MAX and the slice index [..usize::MAX] panics as out of range).
DerefPanics(inner) == Len(inner) = 0

\* Mutant of Deref: the whole buffer, the sentinel slot included.
Deref_WholeBuffer(inner) == inner

\* Deref for NullTerminatedSlice: &self.inner[..self.inner.len() - 1]
Deref(inner) == SubSeq(inner, 1, Len(inner) - 1)

\* Mutant of DerefMut: &mut self.inner[..], the sentinel slot included.
DerefMut_WholeBuffer(inner) == 1..Len(inner)

\* DerefMut for NullTerminatedSlice: the slots &mut self.inner[..len - 1]
\* hands out for writing.
DerefMut(inner) == 1..(Len(inner) - 1)

\* as_ptr: the buffer read as machine words; None is the null address.
AsPtr(inner) ==
    [i \in 1..Len(inner) |-> IF IsNone(inner[i]) THEN 0 ELSE Unwrap(inner[i])]

----------------------------------------------------------------------------
(* NullTerminatedIterator: iter is the remaining slice of a slice::Iter *)

\* into_iter: NullTerminatedIterator { iter: self.iter() }, the iterator of
\* the dereferenced slice.
IntoIter(inner) == Deref(inner)

\* Mutant of SliceIterNext: next_back, the slice is visited from its end.
SliceIterNext_Back(iter) ==
    IF Len(iter) = 0
    THEN [item |-> None, iter |-> iter]
    ELSE [item |-> Some(iter[Len(iter)]), iter |-> SubSeq(iter, 1, Len(iter) - 1)]

\* slice::Iter::next
SliceIterNext(iter) ==
    IF Len(iter) = 0
    THEN [item |-> None, iter |-> iter]
    ELSE [item |-> Some(iter[1]), iter |-> Tail(iter)]

\* Mutant of IterNext: an empty slot is skipped instead of ending the
\* iteration (the behaviour of flatten).
RECURSIVE IterNext_SkipEmpty(_)
IterNext_SkipEmpty(iter) ==
    LET r == SliceIterNext(iter)
    IN  IF IsNone(r.item) THEN [item |-> None, iter |-> r.iter]
        ELSE IF IsNone(Unwrap(r.item)) THEN IterNext_SkipEmpty(r.iter)
        ELSE [item |-> Some(Unwrap(Unwrap(r.item))), iter |-> r.iter]

\* NullTerminatedIterator::next:
\*   if let Some(&Some(ref next)) = self.iter.next() { Some(next) } else { None }
IterNext(iter) ==
    LET r == SliceIterNext(iter)
    IN  IF ~IsNone(r.item) /\ ~IsNone(Unwrap(r.item))
        THEN [item |-> Some(Unwrap(Unwrap(r.item))), iter |-> r.iter]
        ELSE [item |-> None, iter |-> r.iter]

\* Consuming an iterator as collect / a for loop does: up to the first None.
RECURSIVE Collect(_)
Collect(iter) ==
    LET r == IterNext(iter)
    IN  IF IsNone(r.item) THEN <<>> ELSE <<Unwrap(r.item)>> \o Collect(r.iter)

----------------------------------------------------------------------------
(* NullTerminatedArray *)

\* Mutant of ArrayNew: the chain(once(None)) is missing.
ArrayNew_NoSentinel(S) == [i \in 1..Len(S) |-> Some(S[i])]

\* new: iter.map(Some).chain(once(None)).collect().into_boxed_slice()
ArrayNew(S) == [i \in 1..Len(S) |-> Some(S[i])] \o <<None>>

\* Mutant of ArrayFromVec: None is pushed whatever the last slot is.
ArrayFromVec_AlwaysPush(vec) == Append(vec, None)

\* from_vec: push None unless the last slot is None already.
ArrayFromVec(vec) == IF ~LastIsNone(vec) THEN Append(vec, None) ELSE vec

\* to_owned: NullTerminatedArray::new(self.into_iter().cloned())
ToOwned(inner) == ArrayNew(Collect(IntoIter(inner)))

----------------------------------------------------------------------------
(* NullTerminatedVec<T, U> and CMapping, for T = CString, U = &c_char.     *)
(* An owned string is a handle [ptr |-> a] on a heap allocation at address *)
(* a; the heap maps the live addresses to the bytes stored there.          *)

\* The strings a caller builds its CStrings from.
Str == {"a", "bb", "ccc"}

StrSeqs == SeqsUpTo(Str, MaxLen)

\* Heap addresses; 0 is the null address.
Addr == 1..MaxLen

\* CMapping::map for a NixString: &*self.as_ref().as_ptr(), the address of
\* the string's first byte.
CMap(c) == c.ptr

\* NullTerminatedVec::new(vec, f): inner = vec.into_boxed_slice() and
\* null = NullTerminatedArray::new(inner.iter().map(transmute).map(f)).
\* map_from is new with f = |c| c.map().
\* The closure f is given as a function on the elements of vec.
VecNew(vec, f) ==
    [inner |-> vec,
     null  |-> ArrayNew([i \in 1..Len(vec) |-> f[vec[i]]])]

\* Mutant of VecMapFrom: the pointers are taken from inner.iter().rev().
VecMapFrom_Reversed(vec) ==
    [inner |-> vec,
     null  |-> ArrayNew([i \in 1..Len(vec) |-> CMap(vec[Len(vec) + 1 - i])])]

VecMapFrom(vec) ==
    VecNew(vec, [c \in {vec[i] : i \in 1..Len(vec)} |-> CMap(c)])

\* AsRef<NullTerminatedSlice<U>> for NullTerminatedVec: &self.null
VecAsRef(v) == v.null

\* The allocations of fresh CStrings holding strs: one free address each.
Allocs(strs, free) ==
    {a \in [1..Len(strs) -> free] : \A i, j \in 1..Len(strs) : a[i] = a[j] => i = j}

VARIABLES
    heap,      \* live address -> the string stored there
    nv_state,  \* "none" | "live" | "dropped": the NullTerminatedVec
    nv_src,    \* the strings the NullTerminatedVec was built from
    nv,        \* the NullTerminatedVec: [inner, null]
    held       \* the projected pointers the caller has copied out

vvars == <<heap, nv_state, nv_src, nv, held>>

----------------------------------------------------------------------------
(* pipe2 and pipe2_setflags (src/unistd.rs) *)

\* Result<T>
Ok(v) == [ok |-> TRUE, val |-> v]

Err(e) == [ok |-> FALSE, val |-> e]

\* The OFlag bits pipe2 looks at.
PipeFlags == {"O_CLOEXEC", "O_NONBLOCK"}

\* The descriptors ffi::pipe can hand out, and the errnos of the calls.
Fds == {3, 4, 5}

PipeErrnos == {"EMFILE", "ENFILE"}

FcntlErrnos == {"EBADF", "EINVAL"}

\* The four fcntl steps of pipe2_setflags, in program order: the flag that
\* requests the step, the descriptor (1: fd1, 2: fd2) and the command.
FcntlSteps ==
    <<[pc |-> "cloexec1",  flag |-> "O_CLOEXEC",  fd |-> 1, cmd |-> "F_SETFD"],
      [pc |-> "cloexec2",  flag |-> "O_CLOEXEC",  fd |-> 2, cmd |-> "F_SETFD"],
      [pc |-> "nonblock1", flag |-> "O_NONBLOCK", fd |-> 1, cmd |-> "F_SETFL"],
      [pc |-> "nonblock2", flag |-> "O_NONBLOCK", fd |-> 2, cmd |-> "F_SETFL"]>>

StepAt(pc) == CHOOSE i \in 1..Len(FcntlSteps) : FcntlSteps[i].pc = pc

StepPcs == {FcntlSteps[i].pc : i \in 1..Len(FcntlSteps)}

\* Where control goes after the step at pc.
AfterStep(pc) ==
    IF StepAt(pc) = Len(FcntlSteps) THEN "match" ELSE FcntlSteps[StepAt(pc) + 1].pc

\* Mutant of AndThenCalls: the closure runs whatever res is (res = fcntl(..)
\* in place of res.and_then(|_| fcntl(..))).
AndThenCalls_Always(res) == TRUE

\* Result::and_then calls its closure only on Ok.
AndThenCalls(res) == res.ok

VARIABLES
    p_pc,      \* where pipe2 is: "idle", "pipe", a step of FcntlSteps, "match",
               \* "close1", "close2", "done"
    p_flags,   \* the flags argument
    p_fds,     \* <<fd1, fd2>> once ffi::pipe has succeeded
    p_open,    \* the descriptors of the pipe that are open
    p_res,     \* res of pipe2_setflags
    p_calls,   \* the fcntl calls made: [fd, cmd, res]
    p_closes,  \* the descriptors close was called on
    p_ret      \* Some(what pipe2 returned), or None

pvars == <<p_pc, p_flags, p_fds, p_open, p_res, p_calls, p_closes, p_ret>>

----------------------------------------------------------------------------
(* State of the array model: one buffer at a time and one iterator on it *)

VARIABLES
    kind,      \* how the current view was obtained; "none": no view yet;
               \* "rejected": from_slice / from_slice_mut returned None
    arg,       \* the argument of the call that produced it
    inner,     \* the slots of the buffer behind the current view
    written,   \* a slot was written through deref_mut since construction
    it_state,  \* "none" | "active" | "ended" (next has returned None)
    it_iter,   \* NullTerminatedIterator.iter: the slice still to visit
    it_out,    \* the items yielded before the first None
    it_late,   \* the items yielded by calls of next after the first None
    prev,      \* Some(items) of the previous finished iteration, or None
    panicked   \* a dereference of the view has panicked; the thread unwinds

avars == <<kind, arg, inner, written, it_state, it_iter, it_out, it_late, prev,
           panicked>>

Owned == {"new", "from_vec", "to_owned"}

HasView == kind \in Owned \cup {"from_slice", "from_slice_mut"}

Mutable == kind \in Owned \cup {"from_slice_mut"}

NoIter == /\ it_state' = "none"
          /\ it_iter' = <<>>
          /\ it_out' = <<>>
          /\ it_late' = <<>>
          /\ prev' = None

AInit ==
    /\ kind = "none"
    /\ arg = <<>>
    /\ inner = <<>>
    /\ written = FALSE
    /\ it_state = "none"
    /\ it_iter = <<>>
    /\ it_out = <<>>
    /\ it_late = <<>>
    /\ prev = None
    /\ panicked = FALSE

\* A dereference that panics: nothing else changes.
Panic ==
    /\ panicked' = TRUE
    /\ UNCHANGED <<kind, arg, inner, written, it_state, it_iter, it_out,
                   it_late, prev>>

\* let a = NullTerminatedArray::new(S)
New ==
    \E S \in ValueSeqs :
        /\ kind = "none"
        /\ kind' = "new"
        /\ arg' = S
        /\ inner' = ArrayNew(S)
        /\ written' = FALSE
        /\ NoIter
        /\ UNCHANGED panicked
        /\ UNCHANGED <<vvars, pvars>>

\* let a = NullTerminatedArray::from_vec(vec)
FromVec ==
    \E vec \in SlotSeqs :
        /\ kind = "none"
        /\ kind' = "from_vec"
        /\ arg' = vec
        /\ inner' = ArrayFromVec(vec)
        /\ written' = FALSE
        /\ NoIter
        /\ UNCHANGED panicked
        /\ UNCHANGED <<vvars, pvars>>

\* NullTerminatedSlice::from_slice(slice) / from_slice_mut(slice)
CallFromSlice(mut) ==
    \E slice \in SlotSeqs :
        LET r == FromSlice(slice)
        IN  /\ kind = "none"
            /\ kind' = IF IsNone(r) THEN "rejected"
                       ELSE IF mut THEN "from_slice_mut" ELSE "from_slice"
            /\ arg' = slice
            /\ inner' = IF IsNone(r) THEN <<>> ELSE Unwrap(r).inner
            /\ written' = FALSE
            /\ NoIter
            /\ UNCHANGED panicked
            /\ UNCHANGED <<vvars, pvars>>

FromSliceRef == CallFromSlice(FALSE)

FromSliceMut == CallFromSlice(TRUE)

\* let b = view.to_owned(); the model goes on with b
CallToOwned ==
    /\ HasView /\ ~panicked
    /\ IF DerefPanics(inner) THEN Panic
       ELSE /\ kind' = "to_owned"
            /\ arg' = inner
            /\ inner' = ToOwned(inner)
            /\ written' = FALSE
            /\ NoIter
            /\ UNCHANGED panicked
    /\ UNCHANGED <<vvars, pvars>>

\* view.deref_mut()[i] = slot: a write through the mutable slot slice. The
\* exclusive borrow ends every iterator on the view.
WriteSlot ==
    /\ Mutable /\ ~panicked
    /\ IF DerefPanics(inner) THEN Panic
       ELSE /\ \E i \in DerefMut(inner), s \in Slot :
                   inner' = [inner EXCEPT ![i] = s]
            /\ written' = TRUE
            /\ NoIter
            /\ UNCHANGED <<kind, arg, panicked>>
    /\ UNCHANGED <<vvars, pvars>>

\* The view or owned buffer (or the None from_slice returned) goes out of
\* scope; the model holds one buffer at a time.
DropView ==
    /\ kind # "none" /\ ~panicked
    /\ kind' = "none"
    /\ arg' = <<>>
    /\ inner' = <<>>
    /\ written' = FALSE
    /\ NoIter
    /\ UNCHANGED panicked
    /\ UNCHANGED <<vvars, pvars>>

\* (&view).into_iter()
CallIntoIter ==
    /\ HasView /\ ~panicked
    /\ IF DerefPanics(inner) THEN Panic
       ELSE /\ it_state' = "active"
            /\ it_iter' = IntoIter(inner)
            /\ it_out' = <<>>
            /\ it_late' = <<>>
            /\ prev' = IF it_state = "ended" THEN Some(it_out) ELSE prev
            /\ UNCHANGED <<kind, arg, inner, written, panicked>>
    /\ UNCHANGED <<vvars, pvars>>

\* iterator.next()
CallNext ==
    /\ it_state \in {"active", "ended"} /\ ~panicked
    /\ LET r == IterNext(it_iter)
       IN  /\ it_iter' = r.iter
           /\ it_state' = IF IsNone(r.item) THEN "ended" ELSE it_state
           /\ it_out' = IF ~IsNone(r.item) /\ it_state = "active"
                        THEN Append(it_out, Unwrap(r.item)) ELSE it_out
           /\ it_late' = IF ~IsNone(r.item) /\ it_state = "ended"
                         THEN Append(it_late, Unwrap(r.item)) ELSE it_late
    /\ UNCHANGED <<kind, arg, inner, written, prev, panicked>>
    /\ UNCHANGED <<vvars, pvars>>

ANext ==
    \/ New
    \/ FromVec
    \/ FromSliceRef
    \/ FromSliceMut
    \/ CallToOwned
    \/ WriteSlot
    \/ DropView
    \/ CallIntoIter
    \/ CallNext

----------------------------------------------------------------------------
(* The projection model: one NullTerminatedVec at a time *)

NoVec == [inner |-> <<>>, null |-> <<>>]

VInit ==
    /\ heap = <<>>
    /\ nv_state = "none"
    /\ nv_src = <<>>
    /\ nv = NoVec
    /\ held = {}

Live == DOMAIN heap

\* let v = NullTerminatedVec::map_from(vec) for a vec of fresh CStrings; the
\* model starts the next round once the caller holds nothing of the last.
MapFrom ==
    /\ nv_state \in {"none", "dropped"}
    /\ held = {}
    /\ \E strs \in StrSeqs :
         \E a \in Allocs(strs, Addr \ Live) :
            LET vec == [i \in 1..Len(strs) |-> [ptr |-> a[i]]]
                new == {a[i] : i \in 1..Len(strs)}
            IN  /\ heap' = [x \in Live \cup new |->
                               IF x \in new
                               THEN strs[CHOOSE i \in 1..Len(strs) : a[i] = x]
                               ELSE heap[x]]
                /\ nv_src' = strs
                /\ nv' = VecMapFrom(vec)
    /\ nv_state' = "live"
    /\ UNCHANGED held
    /\ UNCHANGED <<avars, pvars>>

\* for p in v.as_ref() { keep(*p) }: U = &'a c_char is Copy and 'a is a
\* parameter of new that nothing ties to the borrow of v, so the copy
\* borrows nothing.
TakePtr ==
    /\ nv_state = "live"
    /\ \E i \in 1..Len(Collect(IntoIter(VecAsRef(nv)))) :
           held' = held \cup {Collect(IntoIter(VecAsRef(nv)))[i]}
    /\ UNCHANGED <<heap, nv_state, nv_src, nv>>
    /\ UNCHANGED <<avars, pvars>>

\* drop(v): inner's CStrings free their allocations, null is freed.
DropVec ==
    /\ nv_state = "live"
    /\ LET freed == {CMap(nv.inner[i]) : i \in 1..Len(nv.inner)}
       IN  heap' = [x \in Live \ freed |-> heap[x]]
    /\ nv_state' = "dropped"
    /\ nv' = NoVec
    /\ UNCHANGED <<nv_src, held>>
    /\ UNCHANGED <<avars, pvars>>

\* The caller lets go of the pointers it copied.
ForgetPtrs ==
    /\ held # {}
    /\ held' = {}
    /\ UNCHANGED <<heap, nv_state, nv_src, nv>>
    /\ UNCHANGED <<avars, pvars>>

VNext ==
    \/ MapFrom
    \/ TakePtr
    \/ DropVec
    \/ ForgetPtrs

----------------------------------------------------------------------------
(* The pipe2 model: one call, one system call or branch per step *)

PInit ==
    /\ p_pc = "idle"
    /\ p_flags = {}
    /\ p_fds = <<>>
    /\ p_open = {}
    /\ p_res = Ok(0)
    /\ p_calls = <<>>
    /\ p_closes = <<>>
    /\ p_ret = None

\* pipe2(flags)
Pipe2Call ==
    /\ p_pc = "idle"
    /\ \E flags \in SUBSET PipeFlags : p_flags' = flags
    /\ p_pc' = "pipe"
    /\ UNCHANGED <<p_fds, p_open, p_res, p_calls, p_closes, p_ret>>
    /\ UNCHANGED <<avars, vvars>>

\* ffi::pipe succeeds: two fresh descriptors; pipe2_setflags starts with
\* res = Ok(0).
PipeOk ==
    /\ p_pc = "pipe"
    /\ \E a, b \in Fds :
           /\ a # b
           /\ p_fds' = <<a, b>>
           /\ p_open' = {a, b}
    /\ p_res' = Ok(0)
    /\ p_pc' = FcntlSteps[1].pc
    /\ UNCHANGED <<p_flags, p_calls, p_closes, p_ret>>
    /\ UNCHANGED <<avars, vvars>>

\* ffi::pipe fails: try! returns the error, no descriptor exists.
PipeErr ==
    /\ p_pc = "pipe"
    /\ \E e \in PipeErrnos : p_ret' = Some(Err(e))
    /\ p_pc' = "done"
    /\ UNCHANGED <<p_flags, p_fds, p_open, p_res, p_calls, p_closes>>
    /\ UNCHANGED <<avars, vvars>>

\* A step whose flag is requested and whose and_then runs its closure:
\* fcntl is called and its result becomes res.
FcntlStep ==
    /\ p_pc \in StepPcs
    /\ LET st == FcntlSteps[StepAt(p_pc)]
       IN  /\ st.flag \in p_flags
           /\ AndThenCalls(p_res)
           /\ \E r \in {Ok(0)} \cup {Err(e) : e \in FcntlErrnos} :
                  /\ p_res' = r
                  /\ p_calls' = Append(p_calls,
                         [fd |-> p_fds[st.fd], cmd |-> st.cmd, res |-> r])
    /\ p_pc' = AfterStep(p_pc)
    /\ UNCHANGED <<p_flags, p_fds, p_open, p_closes, p_ret>>
    /\ UNCHANGED <<avars, vvars>>

\* A step that makes no call: its flag is not requested, or res is an Err
\* and and_then passes it on.
SkipStep ==
    /\ p_pc \in StepPcs
    /\ LET st == FcntlSteps[StepAt(p_pc)]
       IN  ~(st.flag \in p_flags /\ AndThenCalls(p_res))
    /\ p_pc' = AfterStep(p_pc)
    /\ UNCHANGED <<p_flags, p_fds, p_open, p_res, p_calls, p_closes, p_ret>>
    /\ UNCHANGED <<avars, vvars>>

\* match res: Ok(_) => Ok(()), and pipe2 returns Ok((fds[0], fds[1]))
MatchOk ==
    /\ p_pc = "match"
    /\ p_res.ok
    /\ p_ret' = Some(Ok(p_fds))
    /\ p_pc' = "done"
    /\ UNCHANGED <<p_flags, p_fds, p_open, p_res, p_calls, p_closes>>
    /\ UNCHANGED <<avars, vvars>>

\* match res: Err(e) => the two closes follow
MatchErr ==
    /\ p_pc = "match"
    /\ ~p_res.ok
    /\ p_pc' = "close1"
    /\ UNCHANGED <<p_flags, p_fds, p_open, p_res, p_calls, p_closes, p_ret>>
    /\ UNCHANGED <<avars, vvars>>

\* let _ = close(fd1); let _ = close(fd2); return Err(e). close releases
\* the descriptor; what it returns is dropped.
CloseStep ==
    /\ p_pc \in {"close1", "close2"}
    /\ LET fd == IF p_pc = "close1" THEN p_fds[1] ELSE p_fds[2]
       IN  /\ p_open' = p_open \ {fd}
           /\ p_closes' = Append(p_closes, fd)
    /\ p_pc' = IF p_pc = "close1" THEN "close2" ELSE "done"
    /\ p_ret' = IF p_pc = "close1" THEN p_ret ELSE Some(Err(p_res.val))
    /\ UNCHANGED <<p_flags, p_fds, p_res, p_calls>>
    /\ UNCHANGED <<avars, vvars>>

PNext ==
    \/ Pipe2Call
    \/ PipeOk
    \/ PipeErr
    \/ FcntlStep
    \/ SkipStep
    \/ MatchOk
    \/ MatchErr
    \/ CloseStep

----------------------------------------------------------------------------

vars == <<avars, vvars, pvars>>

Init == AInit /\ VInit /\ PInit

Next == ANext

Spec == Init /\ [][Next]_vars

SpecVec == Init /\ [][VNext]_vars

SpecPipe == Init /\ [][PNext]_vars

----------------------------------------------------------------------------
(* Properties *)

\* I1: the last slot is empty.  I2: no other slot is empty.
I1(buf) == Len(buf) >= 1 /\ buf[Len(buf)] = None

I2(buf) == \A i \in 1..(Len(buf) - 1) : buf[i] # None

EndsEmpty(s) == Len(s) >= 1 /\ s[Len(s)] = None

InteriorEmpty(s) == \E i \in 1..(Len(s) - 1) : s[i] = None

\* The position of the first empty slot of s, Len(s) + 1 if it has none.
FirstEmpty(s) ==
    IF \E i \in 1..Len(s) : s[i] = None
    THEN CHOOSE i \in 1..Len(s) :
             s[i] = None /\ \A j \in 1..(i - 1) : s[j] # None
    ELSE Len(s) + 1

\* The values held in the slots that precede the first empty slot of s.
ValuesBefore(s) == [i \in 1..(FirstEmpty(s) - 1) |-> s[i][1]]

IsPrefix(p, q) == Len(p) <= Len(q) /\ p = SubSeq(q, 1, Len(p))

Pristine == ~written

\* C1: new(S) yields |S|+1 slots, the last one empty, and the slice
\* accessor gives S's elements in order and count; new([]) is the single
\* sentinel slot (one null word) with an empty logical slice.
C1_NewAppendsSentinel ==
    (kind = "new" /\ Pristine) =>
        /\ Len(inner) = Len(arg) + 1
        /\ inner[Len(inner)] = None
        /\ Len(Deref(inner)) = Len(arg)
        /\ \A i \in 1..Len(arg) : Deref(inner)[i] = Some(arg[i])
        /\ Len(AsPtr(inner)) = Len(arg) + 1
        /\ (arg = <<>> =>
               inner = <<None>> /\ Deref(inner) = <<>> /\ AsPtr(inner) = <<0>>)

C1_Witness ==
    /\ kind = "new" /\ Pristine
    /\ Len(arg) >= 2 /\ arg[1] # arg[2]
    /\ Len(Deref(inner)) = Len(arg)

\* C2: from_slice / from_slice_mut return a view exactly when the slot
\* sequence has a last slot and it is empty; otherwise None, and then no
\* view exists; a returned view is over exactly the given slots.
C2_FromSliceIffLastEmpty ==
    (kind \in {"from_slice", "from_slice_mut", "rejected"} /\ Pristine) =>
        /\ (kind # "rejected") <=> EndsEmpty(arg)
        /\ (kind = "rejected") => (inner = <<>> /\ IsNone(FromSlice(arg)))
        /\ (kind # "rejected") => inner = arg

C2_Witness ==
    /\ kind = "rejected"
    /\ Len(arg) >= 2 /\ arg[1] = None /\ arg[Len(arg)] # None

\* C3 (as claimed): a buffer built by new satisfies I1 and I2 in every
\* state reachable by the exposed operations.
C3_NewKeepsI1I2 == (kind = "new") => (I1(inner) /\ I2(inner))

\* C4: iterating the view of new(S) yields exactly S in order and then
\* ends; a second iteration of the same view yields S again and the
\* buffer is as new built it.
C4_IterationOfNewIsSource ==
    (kind = "new" /\ Pristine) =>
        /\ inner = ArrayNew(arg)
        /\ (it_state = "active") => IsPrefix(it_out, arg)
        /\ (it_state = "ended") => (it_out = arg /\ it_late = <<>>)
        /\ ~IsNone(prev) => Unwrap(prev) = arg

C4_Witness ==
    /\ kind = "new" /\ Pristine
    /\ Len(arg) >= 2 /\ arg[1] # arg[2]
    /\ it_state = "ended" /\ it_out = arg
    /\ ~IsNone(prev)

\* C5: the projection of n owned values has n+1 slots; slot i is the
\* mapping of the i-th owned value and points at the i-th source string;
\* slot n+1 is the null sentinel (the last of n+1 machine words is zero).
C5_ProjectionKeepsOrder ==
    (nv_state = "live") =>
        LET n == Len(nv_src)
        IN  /\ Len(nv.inner) = n
            /\ Len(VecAsRef(nv)) = n + 1
            /\ Len(Deref(VecAsRef(nv))) = n
            /\ \A i \in 1..n :
                   /\ VecAsRef(nv)[i] = Some(CMap(nv.inner[i]))
                   /\ Unwrap(VecAsRef(nv)[i]) \in DOMAIN heap
                   /\ heap[Unwrap(VecAsRef(nv)[i])] = nv_src[i]
                   /\ AsPtr(VecAsRef(nv))[i] # 0
            /\ VecAsRef(nv)[n + 1] = None
            /\ Len(AsPtr(VecAsRef(nv))) = n + 1
            /\ AsPtr(VecAsRef(nv))[n + 1] = 0

C5_Witness ==
    /\ nv_state = "live"
    /\ nv_src = <<"a", "bb", "ccc">>
    /\ Len(AsPtr(VecAsRef(nv))) = 4
    /\ CMap(nv.inner[1]) > CMap(nv.inner[2])

\* C6 (as claimed): no projected pointer is held by the caller while the
\* owned value it aliases is gone.
C6_NoPointerOutlivesOwner == \A p \in held : p \in DOMAIN heap

\* C7: from_vec of a slot sequence that ends in an empty slot adds no
\* second sentinel: the buffer is the input, the logical slice has the
\* input's length less the sentinel; adopting a buffer's slots again gives
\* the same buffer.
C7_AdoptAddsNoSecondSentinel ==
    (kind = "from_vec" /\ Pristine) =>
        /\ EndsEmpty(arg) =>
               (inner = arg /\ Len(Deref(inner)) = Len(arg) - 1)
        /\ ArrayFromVec(inner) = inner

C7_Witness ==
    /\ kind = "from_vec" /\ Pristine
    /\ Len(arg) >= 2 /\ EndsEmpty(arg) /\ arg[1] # None
    /\ inner = arg

\* C8: from_vec of any slot sequence, the empty one included, ends in an
\* empty slot; one empty slot is appended exactly when the input is empty
\* or ends in a present slot; the input is a prefix of the result.
C8_AdoptEstablishesI1 ==
    (kind = "from_vec" /\ Pristine) =>
        /\ I1(inner)
        /\ IsPrefix(arg, inner)
        /\ Len(inner) = Len(arg) + (IF EndsEmpty(arg) THEN 0 ELSE 1)

C8_Witness ==
    /\ kind = "from_vec" /\ Pristine
    /\ arg = <<>>
    /\ inner = <<None>>

\* C9 (as claimed): adopting a slot sequence with an empty slot before its
\* last position gives a buffer whose slice accessor holds only the slots
\* that precede the first empty slot.
C9_SliceAccessorTruncates ==
    (kind = "from_vec" /\ Pristine /\ InteriorEmpty(arg)) =>
        Deref(inner) = SubSeq(arg, 1, FirstEmpty(arg) - 1)

\* C9 (amended): it is the iteration of the adopted buffer that is
\* truncated at the first empty slot; the slice accessor returns every
\* slot of the buffer but the last, interior empty slots included.
C9_IterationTruncates ==
    (kind = "from_vec" /\ Pristine /\ InteriorEmpty(arg)) =>
        /\ Deref(inner) = (IF EndsEmpty(arg)
                           THEN SubSeq(arg, 1, Len(arg) - 1) ELSE arg)
        /\ (it_state = "active") => IsPrefix(it_out, ValuesBefore(arg))
        /\ (it_state = "ended") => it_out = ValuesBefore(arg)

C9_Witness ==
    /\ kind = "from_vec" /\ Pristine
    /\ arg = <<Some(1), None, Some(2)>>
    /\ Deref(inner) = arg
    /\ it_state = "ended" /\ it_out = <<1>>

\* C10: an iteration of a view yields, in order, the values of the slots
\* before the first empty slot and then ends, never yielding the sentinel;
\* on a view satisfying I1 and I2 these are N-1 items, the logical slice's
\* elements in order.
C10_IterationStopsAtFirstEmpty ==
    (HasView /\ it_state # "none") =>
        /\ IsPrefix(it_out, ValuesBefore(inner))
        /\ Len(it_out) <= Len(inner) - 1
        /\ (it_state = "ended") => it_out = ValuesBefore(inner)
        /\ (it_state = "ended" /\ I1(inner) /\ I2(inner)) =>
               /\ Len(it_out) = Len(inner) - 1
               /\ \A i \in 1..Len(it_out) : Deref(inner)[i] = Some(it_out[i])

C10_Witness ==
    /\ kind = "from_slice"
    /\ InteriorEmpty(inner) /\ inner[1] # None
    /\ it_state = "ended" /\ it_out = ValuesBefore(inner)
    /\ Len(it_out) < Len(inner) - 1

\* C11: a write through the mutable slice accessor, on a view or an owned
\* buffer, never reaches the sentinel: after every such write the last
\* physical slot is still empty and the number of slots is what it was.
C11_WritesKeepSentinel ==
    [][(Mutable /\ written' /\ kind' = kind) =>
           (I1(inner') /\ Len(inner') = Len(inner))]_vars

C11_Witness ==
    /\ kind = "from_slice_mut" /\ written
    /\ Len(inner) = Len(arg) /\ Len(inner) >= 3
    /\ \A i \in DerefMut(inner) : inner[i] # arg[i]
    /\ I1(inner)

\* C12: every view or owned buffer that the checked constructors give has
\* at least one physical slot (from_slice and from_slice_mut give None for
\* the zero-length slot sequence), so no dereference of it computes 0 - 1:
\* none panics.
C12_NoEmptyBuffer ==
    /\ HasView => Len(inner) >= 1
    /\ ~panicked
    /\ (kind \in {"from_slice", "from_slice_mut", "rejected"} /\ arg = <<>>) =>
           kind = "rejected"
    /\ (kind = "none") =>
           \A vec \in SeqsUpTo({[ptr |-> a] : a \in Addr}, MaxLen) :
               Len(VecAsRef(VecMapFrom(vec))) >= 1

C12_Witness ==
    /\ kind = "to_owned" /\ arg = <<None>> /\ inner = <<None>>
    /\ it_state = "ended" /\ it_out = <<>>
    /\ ~panicked

\* The fcntl steps that flags request, in program order.
Requested(flags) ==
    SelectSeq(FcntlSteps, LAMBDA st : st.flag \in flags)

PipeCreated == p_fds # <<>>

FcntlFailed == p_calls # <<>> /\ ~p_calls[Len(p_calls)].res.ok

\* C13: pipe2 never returns an error while a descriptor of the pipe is
\* open. The fcntl calls made are, in order, a prefix of the requested
\* steps (close-on-exec on fd1, fd2, then non-blocking on fd1, fd2) and
\* only the last call made can have failed: nothing is attempted after a
\* failure. On return, after a failure both descriptors have been closed
\* and that error is returned; if every requested step succeeded, both
\* descriptors are returned and neither was closed.
C13_Pipe2ErrorClosesBoth ==
    /\ (~IsNone(p_ret) /\ ~Unwrap(p_ret).ok) => p_open = {}
    /\ PipeCreated =>
          LET req == Requested(p_flags)
          IN  /\ Len(p_calls) <= Len(req)
              /\ \A i \in 1..Len(p_calls) :
                     /\ p_calls[i].fd = p_fds[req[i].fd]
                     /\ p_calls[i].cmd = req[i].cmd
                     /\ (i < Len(p_calls)) => p_calls[i].res.ok
              /\ (p_pc = "done" /\ FcntlFailed) =>
                     /\ p_closes = p_fds
                     /\ p_open = {}
                     /\ p_ret = Some(Err(p_calls[Len(p_calls)].res.val))
              /\ (p_pc = "done" /\ ~FcntlFailed) =>
                     /\ Len(p_calls) = Len(req)
                     /\ p_ret = Some(Ok(p_fds))
                     /\ p_open = {p_fds[1], p_fds[2]}
                     /\ p_closes = <<>>
              /\ (p_pc # "done") => IsNone(p_ret)

C13_Witness ==
    /\ p_pc = "done"
    /\ p_flags = PipeFlags
    /\ Len(p_calls) = 2 /\ p_calls[1].res.ok /\ ~p_calls[2].res.ok
    /\ p_ret = Some(Err("EINVAL"))
    /\ p_open = {} /\ p_closes = p_fds

====
